---- MODULE Spec2Model ----
(***************************************************************************)
(* Model of gatherers_shared_py.diff_and_update_state: one reconciliation  *)
(* pass fetches the former records of the state collection, partitions     *)
(* them into refreshed / unseen, classifies the fresh records, bulk-writes *)
(* the inserts and replaces, and bulk-deletes the unseen records that are  *)
(* older than the retention period.                                        *)
(*                                                                         *)
(* Time is counted in hours.  A record is [data, identifying_fields,       *)
(* last_updated]; data is a function whose DOMAIN is the set of keys.      *)
(***************************************************************************)
EXTENDS Integers, Sequences, FiniteSets, TLC

VARIABLES
    store,                      \* the documents of collection_state, in natural order
    now,                        \* time.time()
    tz,                         \* the local time zone of the process
    pc,                         \* position of the pass
    passes,                     \* number of passes started
    error,                      \* the exception that ended the pass, or "none"
    calls,                      \* the calls made on collection_state by this pass
    called_at,                  \* the time at which this pass was called
    fresh_records,
    former_records,
    refreshed_old_records,
    unseen_old_records,
    added_records,
    changed_records,
    bulk_inserts_and_replaces,
    removed_records,
    bulk_deletes,
    oldest_permitted_timestamp,
    previous,                   \* what the previous pass was given and how it ended
    other                       \* a second call running at the same time, or NoOther

vars == <<store, now, tz, pc, passes, error, calls, called_at, fresh_records, former_records,
          refreshed_old_records, unseen_old_records, added_records, changed_records,
          bulk_inserts_and_replaces, removed_records, bulk_deletes,
          oldest_permitted_timestamp, previous, other>>

locals == <<fresh_records, former_records, refreshed_old_records, unseen_old_records,
            added_records, changed_records, bulk_inserts_and_replaces, removed_records,
            bulk_deletes, oldest_permitted_timestamp>>

(***************************************************************************)
(* Bounds                                                                  *)
(***************************************************************************)
MaxFresh == 2           \* longest fresh_records list
MaxStore == 2           \* most documents in the collection before the first pass
MaxTicks == 1           \* hours that pass after the start
MaxPasses == 2          \* passes run one after the other

\* line 31: retention_period = datetime.timedelta(days=1), in hours
RetentionPeriod == 24

(***************************************************************************)
(* Records                                                                 *)
(***************************************************************************)
Record(data, identifying_fields, last_updated) ==
    [data |-> data, identifying_fields |-> identifying_fields,
     last_updated |-> last_updated]

\* Record.to_dict(): the document written to the collection
ToDict(r) ==
    [data |-> r.data, identifying_fields |-> r.identifying_fields,
     last_updated |-> r.last_updated]

\* Record.__eq__: identity equality over the union of the identifying fields
Identical(a, b) ==
    \A k \in a.identifying_fields \cup b.identifying_fields :
        /\ k \in DOMAIN a.data
        /\ k \in DOMAIN b.data
        /\ a.data[k] = b.data[k]

\* Python's `r in records` for a list of Record objects
InList(r, records) == \E i \in 1..Len(records) : Identical(records[i], r)

\* The (data, identifying_fields) pairs the gatherers produce in this model, in
\* the order of the source they scan: entity 2, a record whose data lacks its
\* identifying field, two versions of entity 1, and entity 1 gathered without
\* identifying fields.
Catalogue ==
    << [data |-> ("id" :> 2) @@ ("name" :> 1),               identifying_fields |-> {"id"}],
       [data |-> ("name" :> 1),                              identifying_fields |-> {"id"}],
       [data |-> ("id" :> 1) @@ ("name" :> 1) @@ ("a" :> 1), identifying_fields |-> {"id"}],
       [data |-> ("id" :> 1) @@ ("name" :> 2) @@ ("b" :> 1), identifying_fields |-> {"id"}],
       [data |-> ("id" :> 1) @@ ("name" :> 1) @@ ("a" :> 1), identifying_fields |-> {}] >>

\* the records of the catalogue, each with every one of the stamps
RecordsAt(stamps) ==
    LET n == Cardinality(stamps)
        first == CHOOSE t \in stamps : \A u \in stamps : t <= u
    IN  [i \in 1..(Len(Catalogue) * n) |->
            Record(Catalogue[((i - 1) \div n) + 1].data,
                   Catalogue[((i - 1) \div n) + 1].identifying_fields,
                   first + ((i - 1) % n))]

\* the subsequences of a list with at most n elements, in its order
Subsequences(records, n) ==
    { SelectSeq([i \in 1..Len(records) |-> <<i, records[i]>>], LAMBDA p : p[1] \in keep)
        : keep \in { k \in SUBSET (1..Len(records)) : Cardinality(k) <= n } }

Restamped(pairs, t) ==
    [i \in 1..Len(pairs) |->
        Record(pairs[i][2].data, pairs[i][2].identifying_fields, t)]

\* The fresh_records argument.  The first pass is handed records of the
\* catalogue gathered now; a later pass is handed what a new scan of the same
\* source gives: the records of the previous list that are still there,
\* stamped now.
Gathered(first, earlier, t) ==
    IF first THEN { Restamped(pairs, t) : pairs \in Subsequences(RecordsAt({t}), MaxFresh) }
    ELSE { Restamped(pairs, t) : pairs \in Subsequences(earlier, Len(earlier)) }

\* the collections the first pass can find
StoresAt(stamps) ==
    { [i \in 1..Len(pairs) |-> ToDict(pairs[i][2])]
        : pairs \in Subsequences(RecordsAt(stamps), MaxStore) }

(***************************************************************************)
(* Local time.  The cutoff is computed through a naive local datetime      *)
(* (fromtimestamp, minus the timedelta, timestamp), so it depends on the   *)
(* zone: "fixed" has one UTC offset, "spring" moves its clocks forward by  *)
(* DstShift at DstAt.  Times are in hours.                                 *)
(***************************************************************************)
DstShift == 1
DstAt == RetentionPeriod + 1

\* the model starts at the transition; the collection then holds records last
\* seen exactly one retention period ago, or an hour before that
StartTime == DstAt
StartStamps == {StartTime - RetentionPeriod - 1, StartTime - RetentionPeriod}
Zones == {"fixed", "spring"}

UtcOffset(zone, t) ==
    CASE zone = "spring" -> IF t >= DstAt THEN DstShift ELSE 0
      [] OTHER           -> 0

\* datetime.datetime.fromtimestamp(t): the naive local wall-clock time
FromTimestamp(zone, t) == t + UtcOffset(zone, t)

\* naive.timestamp() with fold=0: a wall time skipped by "spring" is read with
\* the offset before the transition
Timestamp(zone, wall) ==
    CASE zone = "spring" -> IF wall < DstAt + DstShift THEN wall ELSE wall - DstShift
      [] OTHER           -> wall

OldestPermittedTimestamp(zone, t, retention_period) ==
    Timestamp(zone, FromTimestamp(zone, t) - retention_period)

(***************************************************************************)
(* The collection: find, and the three operations of an unordered          *)
(* bulk_write.  A filter is a function from data keys to required values.  *)
(***************************************************************************)
NoFilter == [k \in {} |-> 0]
NoDoc == [data |-> NoFilter, identifying_fields |-> {}, last_updated |-> 0 - 1]

InsertOneOp(doc) == [kind |-> "insert", filter |-> NoFilter, doc |-> doc]
ReplaceOneOp(filter, doc) == [kind |-> "replace", filter |-> filter, doc |-> doc]
DeleteOneOp(filter) == [kind |-> "delete", filter |-> filter, doc |-> NoDoc]

\* {"data.k": v, ...} matches a document whose data has every k with value v
Matches(filter, doc) ==
    \A k \in DOMAIN filter : k \in DOMAIN doc.data /\ doc.data[k] = filter[k]

HasMatch(filter, docs) == \E i \in 1..Len(docs) : Matches(filter, docs[i])

FirstMatching(filter, docs) ==
    CHOOSE i \in 1..Len(docs) :
        /\ Matches(filter, docs[i])
        /\ \A j \in 1..(i - 1) : ~Matches(filter, docs[j])

RemoveAt(docs, i) ==
    [j \in 1..(Len(docs) - 1) |-> IF j < i THEN docs[j] ELSE docs[j + 1]]

\* ApplyOp with replace_one(..., upsert=True): a replace that matches nothing
\* inserts its document
ApplyOpUpserts(docs, op) ==
    CASE op.kind = "insert" -> Append(docs, op.doc)
      [] op.kind = "replace" ->
            IF HasMatch(op.filter, docs)
            THEN [docs EXCEPT ![FirstMatching(op.filter, docs)] = op.doc]
            ELSE Append(docs, op.doc)
      [] OTHER ->
            IF HasMatch(op.filter, docs)
            THEN RemoveAt(docs, FirstMatching(op.filter, docs))
            ELSE docs

\* one operation applied by the server: insert appends, replace and delete
\* act on the first matching document and do nothing when none matches
ApplyOp(docs, op) ==
    CASE op.kind = "insert" -> Append(docs, op.doc)
      [] op.kind = "replace" ->
            IF HasMatch(op.filter, docs)
            THEN [docs EXCEPT ![FirstMatching(op.filter, docs)] = op.doc]
            ELSE docs
      [] OTHER ->
            IF HasMatch(op.filter, docs)
            THEN RemoveAt(docs, FirstMatching(op.filter, docs))
            ELSE docs

RECURSIVE ApplyInOrder(_, _, _)
ApplyInOrder(docs, ops, order) ==
    IF order = <<>> THEN docs
    ELSE ApplyInOrder(ApplyOp(docs, ops[Head(order)]), ops, Tail(order))

SeqsUpTo(S, n) == UNION { [1..m -> S] : m \in 0..n }

\* ordered=False: the server applies the operations in any order; a failing
\* bulk_write has applied any part of them
PartialOrders(n) ==
    { s \in SeqsUpTo(1..n, n) : \A i, j \in 1..Len(s) : i # j => s[i] # s[j] }

FullOrders(n) == { s \in PartialOrders(n) : Len(s) = n }

(***************************************************************************)
(* The pass                                                                *)
(***************************************************************************)
\* lines 71-74 and 128-130: raises KeyError when data lacks an identifying field
HasIdentifiers(r) == r.identifying_fields \subseteq DOMAIN r.data

IdentifiersDict(r) == [k \in r.identifying_fields |-> r.data[k]]

\* lines 44-48
RefreshedOf(former, fresh) == SelectSeq(former, LAMBDA old : InList(old, fresh))

UnseenOf(former, fresh) == SelectSeq(former, LAMBDA old : ~InList(old, fresh))

\* FormerMatchingRecord taking the last match in place of the first
FormerMatchingRecordLast(fresh_record, refreshed) ==
    refreshed[CHOOSE i \in 1..Len(refreshed) :
                /\ Identical(refreshed[i], fresh_record)
                /\ \A j \in (i + 1)..Len(refreshed) : ~Identical(refreshed[j], fresh_record)]

\* lines 80-82: next(filter(lambda r: r == fresh_record, refreshed_old_records))
FormerMatchingRecord(fresh_record, refreshed) ==
    refreshed[CHOOSE i \in 1..Len(refreshed) :
                /\ Identical(refreshed[i], fresh_record)
                /\ \A j \in 1..(i - 1) : ~Identical(refreshed[j], fresh_record)]

\* FieldDiff reading both values of a changed field from the fresh record
FieldDiffOldIsNew(former_data, fresh_data) ==
    [added |->
        [k \in {key \in DOMAIN fresh_data : key \notin DOMAIN former_data}
            |-> fresh_data[k]],
     changed |->
        [k \in {key \in DOMAIN former_data :
                    key \in DOMAIN fresh_data /\ former_data[key] # fresh_data[key]}
            |-> [old |-> fresh_data[k], new |-> fresh_data[k]]],
     removed |->
        [k \in {key \in DOMAIN former_data : key \notin DOMAIN fresh_data}
            |-> former_data[k]]]

\* lines 84-100
FieldDiff(former_data, fresh_data) ==
    [added |->
        [k \in {key \in DOMAIN fresh_data : key \notin DOMAIN former_data}
            |-> fresh_data[k]],
     changed |->
        [k \in {key \in DOMAIN former_data :
                    key \in DOMAIN fresh_data /\ former_data[key] # fresh_data[key]}
            |-> [old |-> former_data[k], new |-> fresh_data[k]]],
     removed |->
        [k \in {key \in DOMAIN former_data : key \notin DOMAIN fresh_data}
            |-> former_data[k]]]

\* line 103
HasChanges(diff) ==
    DOMAIN diff.added # {} \/ DOMAIN diff.changed # {} \/ DOMAIN diff.removed # {}

ChangedRecord(fresh_record, diff) ==
    [record |-> fresh_record, added |-> diff.added, changed |-> diff.changed,
     removed |-> diff.removed]

\* ClassifyOne writing a refreshed record as a new document
ClassifyOneInsertsRefreshed(acc, fresh_record, refreshed) ==
    IF ~InList(fresh_record, refreshed)
    THEN [acc EXCEPT !.ops = Append(@, InsertOneOp(ToDict(fresh_record))),
                     !.added = Append(@, fresh_record)]
    ELSE LET diff == FieldDiff(FormerMatchingRecord(fresh_record, refreshed).data,
                               fresh_record.data)
             queued == [acc EXCEPT !.ops = Append(@, InsertOneOp(ToDict(fresh_record)))]
         IN  IF HasChanges(diff)
             THEN [queued EXCEPT !.changed = Append(@, ChangedRecord(fresh_record, diff))]
             ELSE queued

\* ClassifyOne without the test of line 103: every refreshed record is reported
ClassifyOneReportsAll(acc, fresh_record, refreshed) ==
    IF ~InList(fresh_record, refreshed)
    THEN [acc EXCEPT !.ops = Append(@, InsertOneOp(ToDict(fresh_record))),
                     !.added = Append(@, fresh_record)]
    ELSE LET diff == FieldDiff(FormerMatchingRecord(fresh_record, refreshed).data,
                               fresh_record.data)
         IN  [acc EXCEPT !.ops = Append(@, ReplaceOneOp(IdentifiersDict(fresh_record),
                                                        ToDict(fresh_record))),
                         !.changed = Append(@, ChangedRecord(fresh_record, diff))]

\* ClassifyOne taking a record for known only when its data is known
ClassifyOneComparesData(acc, fresh_record, refreshed) ==
    IF ~\E i \in 1..Len(refreshed) : refreshed[i].data = fresh_record.data
    THEN [acc EXCEPT !.ops = Append(@, InsertOneOp(ToDict(fresh_record))),
                     !.added = Append(@, fresh_record)]
    ELSE LET diff == FieldDiff(FormerMatchingRecord(fresh_record, refreshed).data,
                               fresh_record.data)
             queued == [acc EXCEPT !.ops = Append(@,
                            ReplaceOneOp(IdentifiersDict(fresh_record),
                                         ToDict(fresh_record)))]
         IN  IF HasChanges(diff)
             THEN [queued EXCEPT !.changed = Append(@, ChangedRecord(fresh_record, diff))]
             ELSE queued

\* ClassifyOne writing a refreshed record only when a field changed
ClassifyOneWritesOnlyChanges(acc, fresh_record, refreshed) ==
    IF ~InList(fresh_record, refreshed)
    THEN [acc EXCEPT !.ops = Append(@, InsertOneOp(ToDict(fresh_record))),
                     !.added = Append(@, fresh_record)]
    ELSE LET diff == FieldDiff(FormerMatchingRecord(fresh_record, refreshed).data,
                               fresh_record.data)
         IN  IF HasChanges(diff)
             THEN [acc EXCEPT !.ops = Append(@,
                                  ReplaceOneOp(IdentifiersDict(fresh_record),
                                               ToDict(fresh_record))),
                              !.changed = Append(@, ChangedRecord(fresh_record, diff))]
             ELSE acc

\* ClassifyOne writing the former record back with the new timestamp
ClassifyOneKeepsFormer(acc, fresh_record, refreshed) ==
    IF ~InList(fresh_record, refreshed)
    THEN [acc EXCEPT !.ops = Append(@, InsertOneOp(ToDict(fresh_record))),
                     !.added = Append(@, fresh_record)]
    ELSE LET former == FormerMatchingRecord(fresh_record, refreshed)
             diff == FieldDiff(former.data, fresh_record.data)
             queued == [acc EXCEPT !.ops = Append(@,
                            ReplaceOneOp(IdentifiersDict(fresh_record),
                                         ToDict(Record(former.data,
                                                       former.identifying_fields,
                                                       fresh_record.last_updated))))]
         IN  IF HasChanges(diff)
             THEN [queued EXCEPT !.changed = Append(@, ChangedRecord(fresh_record, diff))]
             ELSE queued

\* lines 60-111, one iteration of the loop
ClassifyOne(acc, fresh_record, refreshed) ==
    IF ~InList(fresh_record, refreshed)
    THEN [acc EXCEPT !.ops = Append(@, InsertOneOp(ToDict(fresh_record))),
                     !.added = Append(@, fresh_record)]
    ELSE IF ~HasIdentifiers(fresh_record)
    THEN [acc EXCEPT !.error = "KeyError"]
    ELSE LET diff == FieldDiff(FormerMatchingRecord(fresh_record, refreshed).data,
                               fresh_record.data)
             queued == [acc EXCEPT !.ops = Append(@,
                            ReplaceOneOp(IdentifiersDict(fresh_record),
                                         ToDict(fresh_record)))]
         IN  IF HasChanges(diff)
             THEN [queued EXCEPT !.changed = Append(@, ChangedRecord(fresh_record, diff))]
             ELSE queued

RECURSIVE ClassifyFrom(_, _, _, _)
ClassifyFrom(acc, fresh, refreshed, i) ==
    IF i > Len(fresh) \/ acc.error # "none" THEN acc
    ELSE ClassifyFrom(ClassifyOne(acc, fresh[i], refreshed), fresh, refreshed, i + 1)

Classify(fresh, refreshed) ==
    ClassifyFrom([added |-> <<>>, changed |-> <<>>, ops |-> <<>>, error |-> "none"],
                 fresh, refreshed, 1)

\* lines 124-132, one iteration of the loop
ProcessOne(acc, record, oldest) ==
    IF ~(oldest > record.last_updated) THEN acc
    ELSE IF ~HasIdentifiers(record)
    THEN [acc EXCEPT !.error = "KeyError"]
    ELSE [acc EXCEPT !.ops = Append(@, DeleteOneOp(IdentifiersDict(record))),
                     !.removed = Append(@, record)]

RECURSIVE ProcessFrom(_, _, _, _)
ProcessFrom(acc, unseen, oldest, i) ==
    IF i > Len(unseen) \/ acc.error # "none" THEN acc
    ELSE ProcessFrom(ProcessOne(acc, unseen[i], oldest), unseen, oldest, i + 1)

ProcessUnseen(unseen, oldest) ==
    ProcessFrom([removed |-> <<>>, ops |-> <<>>, error |-> "none"], unseen, oldest, 1)

\* a call on collection_state: what was called, with what, and whether it raised
FindCall(raised) == [op |-> "find", requests |-> <<>>, raised |-> raised]
BulkWriteCall(ops, raised) == [op |-> "bulk_write", requests |-> ops, raised |-> raised]

\* a pass starts when none is running; the exception of a pass ends the
\* gatherer process, which starts no further pass
Resting == {"idle", "returned"}

\* the records of the pass are well-formed and agree on one non-empty set of
\* identifying fields, and neither list holds two records of one identity
WellFormed(r) == r.identifying_fields # {} /\ r.identifying_fields \subseteq DOMAIN r.data

NoTwoIdentical(records) ==
    \A i, j \in 1..Len(records) : i # j => ~Identical(records[i], records[j])

SameIdentifyingFields(former, fresh) ==
    \A r, q \in {former[i] : i \in 1..Len(former)} \cup {fresh[i] : i \in 1..Len(fresh)} :
        r.identifying_fields = q.identifying_fields

Uniform(former, fresh) ==
    /\ \A i \in 1..Len(former) : WellFormed(former[i])
    /\ \A i \in 1..Len(fresh) : WellFormed(fresh[i])
    /\ SameIdentifyingFields(former, fresh)
    /\ NoTwoIdentical(former)
    /\ NoTwoIdentical(fresh)

\* the fresh records of the pass that matched a former record with equal data
RefreshedUnchanged ==
    SelectSeq(fresh_records,
              LAMBDA f : /\ InList(f, former_records)
                         /\ \A i \in 1..Len(changed_records) : changed_records[i].record # f)

\* what a later pass remembers of the pass before it
NoPrevious ==
    [ran |-> FALSE, returned |-> FALSE, fresh |-> <<>>, at |-> 0, uniform |-> FALSE,
     unchanged |-> <<>>, reported |-> FALSE]

\* no second call
NoOther ==
    [pc |-> "idle", fresh_records |-> <<>>, unseen_old_records |-> <<>>,
     added_records |-> <<>>, bulk_inserts_and_replaces |-> <<>>,
     removed_records |-> <<>>, bulk_deletes |-> <<>>]

ThisPass ==
    [ran |-> pc # "idle", returned |-> pc = "returned", fresh |-> fresh_records,
     at |-> called_at, uniform |-> Uniform(former_records, fresh_records),
     unchanged |-> RefreshedUnchanged,
     reported |-> added_records # <<>> \/ changed_records # <<>>]

Init ==
    /\ tz \in Zones
    /\ now = StartTime
    /\ store \in StoresAt(StartStamps)
    /\ pc = "idle"
    /\ passes = 0
    /\ error = "none"
    /\ calls = <<>>
    /\ called_at = StartTime
    /\ fresh_records = <<>>
    /\ former_records = <<>>
    /\ refreshed_old_records = <<>>
    /\ unseen_old_records = <<>>
    /\ added_records = <<>>
    /\ changed_records = <<>>
    /\ bulk_inserts_and_replaces = <<>>
    /\ removed_records = <<>>
    /\ bulk_deletes = <<>>
    /\ oldest_permitted_timestamp = 0
    /\ previous = NoPrevious
    /\ other = NoOther

\* time passes between two passes
Tick ==
    /\ pc = "returned"
    /\ passes < MaxPasses
    /\ now < StartTime + MaxTicks
    /\ now' = now + 1
    /\ UNCHANGED <<store, tz, pc, passes, error, calls, called_at, locals, previous, other>>

\* lines 33-111: the caller hands over the records gathered now; find() returns
\* the collection; the former records are split and the fresh ones classified
FetchAndClassify ==
    /\ pc \in Resting
    /\ passes < MaxPasses
    /\ \E fresh \in Gathered(passes = 0, fresh_records, now) :
        LET former == store
            refreshed == RefreshedOf(former, fresh)
            unseen == UnseenOf(former, fresh)
            result == Classify(fresh, refreshed)
        IN  /\ fresh_records' = fresh
            /\ former_records' = former
            /\ refreshed_old_records' = refreshed
            /\ unseen_old_records' = unseen
            /\ added_records' = result.added
            /\ changed_records' = result.changed
            /\ bulk_inserts_and_replaces' = result.ops
            /\ error' = result.error
            /\ pc' = IF result.error = "none" THEN "classified" ELSE "raised"
    /\ removed_records' = <<>>
    /\ bulk_deletes' = <<>>
    /\ oldest_permitted_timestamp' = 0
    /\ calls' = <<FindCall(FALSE)>>
    /\ called_at' = now
    /\ passes' = passes + 1
    /\ previous' = ThisPass
    /\ UNCHANGED <<store, now, tz, other>>

\* FetchFails with the error of find() caught and taken for an empty collection
FetchFailsQuietly ==
    /\ pc \in Resting
    /\ passes < MaxPasses
    /\ \E fresh \in Gathered(passes = 0, fresh_records, now) :
        LET result == Classify(fresh, <<>>)
        IN  /\ fresh_records' = fresh
            /\ added_records' = result.added
            /\ changed_records' = result.changed
            /\ bulk_inserts_and_replaces' = result.ops
    /\ former_records' = <<>>
    /\ refreshed_old_records' = <<>>
    /\ unseen_old_records' = <<>>
    /\ removed_records' = <<>>
    /\ bulk_deletes' = <<>>
    /\ oldest_permitted_timestamp' = 0
    /\ calls' = <<FindCall(TRUE)>>
    /\ called_at' = now
    /\ error' = "none"
    /\ pc' = "classified"
    /\ passes' = passes + 1
    /\ previous' = ThisPass
    /\ UNCHANGED <<store, now, tz, other>>

\* line 37 raises: the error of find() leaves the function before anything else
\* is computed
FetchFails ==
    /\ pc \in Resting
    /\ passes < MaxPasses
    /\ calls' = <<FindCall(TRUE)>>
    /\ called_at' = now
    /\ error' = "find"
    /\ pc' = "raised"
    /\ passes' = passes + 1
    /\ previous' = ThisPass
    /\ UNCHANGED <<store, now, tz, locals, other>>

\* SkipInsertsAndReplaces without the test of line 113: the empty list is written
WriteEmptyInsertsAndReplaces ==
    /\ pc = "classified"
    /\ bulk_inserts_and_replaces = <<>>
    /\ calls' = Append(calls, BulkWriteCall(bulk_inserts_and_replaces, FALSE))
    /\ pc' = "persisted"
    /\ UNCHANGED <<store, now, tz, passes, error, called_at, locals, previous, other>>

\* lines 113-115 with an empty list: no call
SkipInsertsAndReplaces ==
    /\ pc = "classified"
    /\ bulk_inserts_and_replaces = <<>>
    /\ pc' = "persisted"
    /\ UNCHANGED <<store, now, tz, passes, error, calls, called_at, locals, previous, other>>

\* lines 113-115: bulk_write(bulk_inserts_and_replaces, ordered=False) returns
PersistInsertsAndReplaces ==
    /\ pc = "classified"
    /\ bulk_inserts_and_replaces # <<>>
    /\ \E order \in FullOrders(Len(bulk_inserts_and_replaces)) :
        store' = ApplyInOrder(store, bulk_inserts_and_replaces, order)
    /\ calls' = Append(calls, BulkWriteCall(bulk_inserts_and_replaces, FALSE))
    /\ pc' = "persisted"
    /\ UNCHANGED <<now, tz, passes, error, called_at, locals, previous, other>>

\* PersistInsertsAndReplacesFails with the error caught: the pass goes on
PersistInsertsAndReplacesFailsQuietly ==
    /\ pc = "classified"
    /\ bulk_inserts_and_replaces # <<>>
    /\ \E order \in PartialOrders(Len(bulk_inserts_and_replaces)) :
        store' = ApplyInOrder(store, bulk_inserts_and_replaces, order)
    /\ calls' = Append(calls, BulkWriteCall(bulk_inserts_and_replaces, TRUE))
    /\ pc' = "persisted"
    /\ UNCHANGED <<now, tz, passes, error, called_at, locals, previous, other>>

\* line 115 raises after any part of the batch was applied; nothing catches it
PersistInsertsAndReplacesFails ==
    /\ pc = "classified"
    /\ bulk_inserts_and_replaces # <<>>
    /\ \E order \in PartialOrders(Len(bulk_inserts_and_replaces)) :
        store' = ApplyInOrder(store, bulk_inserts_and_replaces, order)
    /\ calls' = Append(calls, BulkWriteCall(bulk_inserts_and_replaces, TRUE))
    /\ error' = "bulk_write"
    /\ pc' = "raised"
    /\ UNCHANGED <<now, tz, passes, called_at, locals, previous, other>>

\* CollectRemoved reading the collection again after the first batch
CollectRemovedRereads ==
    /\ pc = "persisted"
    /\ LET oldest == OldestPermittedTimestamp(tz, now, RetentionPeriod)
           result == ProcessUnseen(UnseenOf(store, fresh_records), oldest)
       IN  /\ oldest_permitted_timestamp' = oldest
           /\ removed_records' = result.removed
           /\ bulk_deletes' = result.ops
           /\ error' = result.error
           /\ pc' = IF result.error = "none" THEN "collected" ELSE "raised"
    /\ calls' = Append(calls, FindCall(FALSE))
    /\ UNCHANGED <<store, now, tz, passes, called_at, fresh_records, former_records,
                   refreshed_old_records, unseen_old_records, added_records,
                   changed_records, bulk_inserts_and_replaces, previous, other>>

\* lines 117-132: the cutoff and the loop over the unseen former records
CollectRemoved ==
    /\ pc = "persisted"
    /\ LET oldest == OldestPermittedTimestamp(tz, now, RetentionPeriod)
           result == ProcessUnseen(unseen_old_records, oldest)
       IN  /\ oldest_permitted_timestamp' = oldest
           /\ removed_records' = result.removed
           /\ bulk_deletes' = result.ops
           /\ error' = result.error
           /\ pc' = IF result.error = "none" THEN "collected" ELSE "raised"
    /\ UNCHANGED <<store, now, tz, passes, calls, called_at, fresh_records, former_records,
                   refreshed_old_records, unseen_old_records, added_records,
                   changed_records, bulk_inserts_and_replaces, previous, other>>

\* lines 134-140 with an empty list: no call, the results are returned
SkipDeletes ==
    /\ pc = "collected"
    /\ bulk_deletes = <<>>
    /\ pc' = "returned"
    /\ UNCHANGED <<store, now, tz, passes, error, calls, called_at, locals, previous, other>>

\* lines 134-140: bulk_write(bulk_deletes, ordered=False) returns, then the results
PersistDeletes ==
    /\ pc = "collected"
    /\ bulk_deletes # <<>>
    /\ \E order \in FullOrders(Len(bulk_deletes)) :
        store' = ApplyInOrder(store, bulk_deletes, order)
    /\ calls' = Append(calls, BulkWriteCall(bulk_deletes, FALSE))
    /\ pc' = "returned"
    /\ UNCHANGED <<now, tz, passes, error, called_at, locals, previous, other>>

\* PersistDeletesFails with one retry of the failed batch, which then succeeds
PersistDeletesFailsRetries ==
    /\ pc = "collected"
    /\ bulk_deletes # <<>>
    /\ \E order \in PartialOrders(Len(bulk_deletes)) :
        store' = ApplyInOrder(ApplyInOrder(store, bulk_deletes, order), bulk_deletes,
                              [i \in 1..Len(bulk_deletes) |-> i])
    /\ calls' = calls \o <<BulkWriteCall(bulk_deletes, TRUE), BulkWriteCall(bulk_deletes, FALSE)>>
    /\ pc' = "returned"
    /\ UNCHANGED <<now, tz, passes, error, called_at, locals, previous, other>>

\* line 136 raises after any part of the batch was applied
PersistDeletesFails ==
    /\ pc = "collected"
    /\ bulk_deletes # <<>>
    /\ \E order \in PartialOrders(Len(bulk_deletes)) :
        store' = ApplyInOrder(store, bulk_deletes, order)
    /\ calls' = Append(calls, BulkWriteCall(bulk_deletes, TRUE))
    /\ error' = "bulk_write"
    /\ pc' = "raised"
    /\ UNCHANGED <<now, tz, passes, called_at, locals, previous, other>>

Next ==
    \/ Tick
    \/ FetchAndClassify
    \/ FetchFails
    \/ SkipInsertsAndReplaces
    \/ PersistInsertsAndReplaces
    \/ PersistInsertsAndReplacesFails
    \/ CollectRemoved
    \/ SkipDeletes
    \/ PersistDeletes
    \/ PersistDeletesFails

Spec == Init /\ [][Next]_vars

(***************************************************************************)
(* Two calls at the same time on one collection.  The second call runs the *)
(* same function; it is handed some of the records the first was handed,   *)
(* and its steps interleave freely with those of the first.                *)
(***************************************************************************)
mine == <<now, tz, pc, passes, error, calls, called_at, locals, previous>>

\* the first call, made once
StartPass == passes = 0 /\ FetchAndClassify

\* lines 33-111 in the second call: find() returns the collection as it is now
OtherFetchAndClassify ==
    /\ other.pc = "idle"
    /\ pc # "idle"
    /\ \E fresh \in Gathered(FALSE, fresh_records, now) :
        LET former == store
            refreshed == RefreshedOf(former, fresh)
            unseen == UnseenOf(former, fresh)
            result == Classify(fresh, refreshed)
        IN  other' = [pc |-> IF result.error = "none" THEN "classified" ELSE "raised",
                      fresh_records |-> fresh,
                      unseen_old_records |-> unseen,
                      added_records |-> result.added,
                      bulk_inserts_and_replaces |-> result.ops,
                      removed_records |-> <<>>,
                      bulk_deletes |-> <<>>]
    /\ UNCHANGED <<store, mine>>

\* lines 113-115 in the second call
OtherPersistInsertsAndReplaces ==
    /\ other.pc = "classified"
    /\ IF other.bulk_inserts_and_replaces = <<>>
       THEN store' = store
       ELSE \E order \in FullOrders(Len(other.bulk_inserts_and_replaces)) :
                store' = ApplyInOrder(store, other.bulk_inserts_and_replaces, order)
    /\ other' = [other EXCEPT !.pc = "persisted"]
    /\ UNCHANGED mine

\* lines 117-132 in the second call
OtherCollectRemoved ==
    /\ other.pc = "persisted"
    /\ LET oldest == OldestPermittedTimestamp(tz, now, RetentionPeriod)
           result == ProcessUnseen(other.unseen_old_records, oldest)
       IN  other' = [other EXCEPT
                        !.pc = IF result.error = "none" THEN "collected" ELSE "raised",
                        !.removed_records = result.removed,
                        !.bulk_deletes = result.ops]
    /\ UNCHANGED <<store, mine>>

\* lines 134-140 in the second call
OtherPersistDeletes ==
    /\ other.pc = "collected"
    /\ IF other.bulk_deletes = <<>>
       THEN store' = store
       ELSE \E order \in FullOrders(Len(other.bulk_deletes)) :
                store' = ApplyInOrder(store, other.bulk_deletes, order)
    /\ other' = [other EXCEPT !.pc = "returned"]
    /\ UNCHANGED mine

NextConcurrent ==
    \/ StartPass
    \/ SkipInsertsAndReplaces
    \/ PersistInsertsAndReplaces
    \/ CollectRemoved
    \/ SkipDeletes
    \/ PersistDeletes
    \/ OtherFetchAndClassify
    \/ OtherPersistInsertsAndReplaces
    \/ OtherCollectRemoved
    \/ OtherPersistDeletes

\* the two calls run in one process, whose zone has no transition
InitConcurrent == Init /\ tz = "fixed"

SpecConcurrent == InitConcurrent /\ [][NextConcurrent]_vars

(***************************************************************************)
(* Properties                                                              *)
(***************************************************************************)
HasFormer(f) == \E i \in 1..Len(former_records) : Identical(former_records[i], f)

\* the first former record, in fetch order, that is identity-equal to f
FirstFormer(f) ==
    former_records[CHOOSE i \in 1..Len(former_records) :
                     /\ Identical(former_records[i], f)
                     /\ \A j \in 1..(i - 1) : ~Identical(former_records[j], f)]

Unseen(old) == \A i \in 1..Len(fresh_records) : ~Identical(old, fresh_records[i])

RecordsOf(changed) == [i \in 1..Len(changed) |-> changed[i].record]

IsInsertOf(op, f) == op = [kind |-> "insert", filter |-> NoFilter, doc |-> ToDict(f)]

IsReplaceOf(op, f) ==
    /\ op.kind = "replace"
    /\ op.doc = ToDict(f)
    /\ DOMAIN op.filter = f.identifying_fields
    /\ \A k \in DOMAIN op.filter : op.filter[k] = f.data[k]

Classified == pc \in {"classified", "persisted", "collected", "returned"}

Collected == pc \in {"collected", "returned"}

\* C1 (classification completeness): once the fresh records are classified,
\* one operation is queued per fresh record, in order: an insert of the record
\* when no former record is identity-equal to it, a replace otherwise; added is
\* exactly the fresh records without a former record, in order; changed holds
\* exactly one entry for each fresh record that has a former record and whose
\* data differs from that of its first former record, in order; so every fresh
\* record is in exactly one of added, changed, or neither with a replace queued.
ClassificationComplete ==
    Classified =>
        /\ Len(bulk_inserts_and_replaces) = Len(fresh_records)
        /\ \A i \in 1..Len(fresh_records) :
            IF HasFormer(fresh_records[i])
            THEN IsReplaceOf(bulk_inserts_and_replaces[i], fresh_records[i])
            ELSE IsInsertOf(bulk_inserts_and_replaces[i], fresh_records[i])
        /\ added_records = SelectSeq(fresh_records, LAMBDA f : ~HasFormer(f))
        /\ RecordsOf(changed_records) =
                SelectSeq(fresh_records,
                          LAMBDA f : HasFormer(f) /\ FirstFormer(f).data # f.data)

\* all three classes occur: with two fresh records, one added and one changed,
\* and in another pass one changed and one refreshed without a change
ClassificationWitness ==
    /\ pc = "classified"
    /\ Len(fresh_records) = 2
    /\ Len(changed_records) = 1
    /\ \/ Len(added_records) = 1
       \/ added_records = <<>> /\ former_records # <<>>

\* C2 (identity-only equality, as claimed): no two records reported in added by
\* one pass have equal identifying-field values and different other fields.
NeverBothAdded ==
    Classified =>
        \A i, j \in 1..Len(added_records) :
            i # j => ~( /\ Identical(added_records[i], added_records[j])
                        /\ added_records[i].data # added_records[j].data )

InAdded(f) == \E i \in 1..Len(added_records) : added_records[i] = f

\* C2 (amended): identity alone decides between a former and a fresh record:
\* no record reported in added is identity-equal to a former record of the
\* pass, whatever their other fields; fresh records are not compared with each
\* other, so two identity-equal fresh records without a former record are both
\* reported in added.
IdentityDecidesAdded ==
    Classified =>
        /\ \A i \in 1..Len(added_records), j \in 1..Len(former_records) :
                ~Identical(former_records[j], added_records[i])
        /\ \A i, j \in 1..Len(fresh_records) :
                ( /\ i # j
                  /\ Identical(fresh_records[i], fresh_records[j])
                  /\ ~HasFormer(fresh_records[i])
                  /\ ~HasFormer(fresh_records[j]) )
                => InAdded(fresh_records[i]) /\ InAdded(fresh_records[j])

\* a fresh record whose former record has the same identity and other data is
\* not in added
IdentityWitness ==
    /\ pc = "classified"
    /\ \E i \in 1..Len(fresh_records) :
        /\ HasFormer(fresh_records[i])
        /\ FirstFormer(fresh_records[i]).data # fresh_records[i].data
        /\ ~InAdded(fresh_records[i])

\* C3 (field diff): every entry of changed carries, against the first former
\* record identity-equal to its record: added = the keys only in the fresh
\* data with the fresh value, removed = the keys only in the former data with
\* the former value, changed = the keys in both with unequal values, with the
\* old and the new value; the three key sets are pairwise disjoint and their
\* union is the set of keys on which the two maps differ.
FieldDiffCorrect ==
    Classified =>
        \A i \in 1..Len(changed_records) :
            LET c == changed_records[i]
                fresh == c.record.data
                former == FirstFormer(c.record).data
                differing == { k \in DOMAIN fresh \cup DOMAIN former :
                                 \/ k \notin DOMAIN fresh
                                 \/ k \notin DOMAIN former
                                 \/ fresh[k] # former[k] }
            IN  /\ DOMAIN c.added = DOMAIN fresh \ DOMAIN former
                /\ \A k \in DOMAIN c.added : c.added[k] = fresh[k]
                /\ DOMAIN c.removed = DOMAIN former \ DOMAIN fresh
                /\ \A k \in DOMAIN c.removed : c.removed[k] = former[k]
                /\ DOMAIN c.changed =
                        { k \in DOMAIN fresh \cap DOMAIN former : fresh[k] # former[k] }
                /\ \A k \in DOMAIN c.changed :
                        c.changed[k] = [old |-> former[k], new |-> fresh[k]]
                /\ DOMAIN c.added \cap DOMAIN c.removed = {}
                /\ DOMAIN c.added \cap DOMAIN c.changed = {}
                /\ DOMAIN c.removed \cap DOMAIN c.changed = {}
                /\ DOMAIN c.added \cup DOMAIN c.removed \cup DOMAIN c.changed = differing

\* a changed record with an added, a changed and a removed field at once
FieldDiffWitness ==
    /\ pc = "classified"
    /\ \E i \in 1..Len(changed_records) :
        /\ DOMAIN changed_records[i].added # {}
        /\ DOMAIN changed_records[i].changed # {}
        /\ DOMAIN changed_records[i].removed # {}

\* is_stale of the specification: last seen before now minus the retention period
\* (called_at is the clock reading of the pass)
IsStale(r) == r.last_updated < called_at - RetentionPeriod

\* C4 (retention boundary, as claimed): when the loop over the unseen records
\* has ended, removed is exactly the former records that are unseen and last
\* seen strictly before now minus the retention period, in order, and one
\* delete is queued for each of them.
RetentionBoundary ==
    Collected =>
        /\ removed_records = SelectSeq(former_records, LAMBDA old : Unseen(old) /\ IsStale(old))
        /\ Len(bulk_deletes) = Len(removed_records)
        /\ \A i \in 1..Len(removed_records) :
            bulk_deletes[i] = DeleteOneOp(IdentifiersDict(removed_records[i]))

\* the fresh record f is absent from this pass
Absent(f) == \A i \in 1..Len(fresh_records) : ~Identical(fresh_records[i], f)

\* C5 (unconditional timestamp refresh, as claimed): a fresh record with a
\* former record gets a replace queued that carries its own last_updated, and
\* a record that the previous pass refreshed without a field change, all
\* writes succeeding, is not reported removed by this pass when it is absent
\* from it and this pass runs within the retention period of the previous one.
RefreshedIsKept ==
    /\ Classified =>
        \A i \in 1..Len(fresh_records) :
            HasFormer(fresh_records[i]) =>
                IsReplaceOf(bulk_inserts_and_replaces[i], fresh_records[i])
    /\ (Collected /\ previous.returned /\ called_at <= previous.at + RetentionPeriod) =>
        \A i \in 1..Len(previous.unchanged) :
            Absent(previous.unchanged[i]) =>
                \A j \in 1..Len(removed_records) :
                    ~Identical(removed_records[j], previous.unchanged[i])

\* this pass was handed the records of the previous pass again, which returned
SameFreshAgain ==
    /\ previous.ran
    /\ previous.returned
    /\ Len(fresh_records) = Len(previous.fresh)
    /\ \A i \in 1..Len(fresh_records) :
        /\ fresh_records[i].data = previous.fresh[i].data
        /\ fresh_records[i].identifying_fields = previous.fresh[i].identifying_fields

\* C6 (idempotence, as claimed): the second of two passes with the same fresh
\* set, no more than the retention period apart, reports nothing; stated for
\* well-formed records of distinct identities where local time has no shift.
IdempotentAsClaimed ==
    ( /\ pc = "returned"
      /\ SameFreshAgain
      /\ previous.uniform
      /\ tz = "fixed"
      /\ called_at - previous.at <= RetentionPeriod ) =>
        /\ added_records = <<>>
        /\ changed_records = <<>>
        /\ removed_records = <<>>

\* C6 (amended): when the collection held at most one record per identity, the
\* fresh list holds no two identity-equal records, and all of them are
\* well-formed with one non-empty set of identifying fields, the second of
\* two passes with the same fresh set reports nothing added and nothing
\* changed, and nothing removed when no time passed between the two.
Idempotent ==
    /\ (Classified /\ SameFreshAgain /\ previous.uniform) =>
            added_records = <<>> /\ changed_records = <<>>
    /\ (Collected /\ SameFreshAgain /\ previous.uniform /\ called_at = previous.at) =>
            removed_records = <<>>

\* the second pass repeats a first pass that reported records, and leaves an
\* unseen record in place
IdempotentWitness ==
    /\ pc = "returned"
    /\ SameFreshAgain
    /\ previous.uniform
    /\ previous.reported
    /\ called_at = previous.at
    /\ fresh_records # <<>>
    /\ unseen_old_records # <<>>

IsWriteOf(call, kinds) ==
    call.op = "bulk_write" /\ call.requests # <<>> /\ call.requests[1].kind \in kinds

FirstBatchFailed ==
    \E i \in 1..Len(calls) : IsWriteOf(calls[i], {"insert", "replace"}) /\ calls[i].raised

FirstBatchAttempted == \E i \in 1..Len(calls) : IsWriteOf(calls[i], {"insert", "replace"})

DeleteBatchAttempted == \E i \in 1..Len(calls) : IsWriteOf(calls[i], {"delete"})

\* an unseen former record that line 126 would queue for deletion
SomeUnseenIsOld ==
    \E i \in 1..Len(unseen_old_records) :
        /\ OldestPermittedTimestamp(tz, called_at, RetentionPeriod) > unseen_old_records[i].last_updated
        /\ HasIdentifiers(unseen_old_records[i])

\* C7 (failure independence, as claimed): a pass whose insert/replace batch
\* failed has still attempted the delete batch for its stale unseen records
\* when it ends.
DeletesAttemptedAfterFailure ==
    (pc = "raised" /\ FirstBatchFailed /\ SomeUnseenIsOld) => DeleteBatchAttempted

\* C7 (amended): the failure of the insert/replace batch ends the pass with
\* that error: it was the last call of the pass, and no delete is queued or
\* attempted, nothing is reported removed.
FailureEndsThePass ==
    FirstBatchFailed =>
        /\ pc = "raised"
        /\ error = "bulk_write"
        /\ calls[Len(calls)].raised
        /\ IsWriteOf(calls[Len(calls)], {"insert", "replace"})
        /\ ~DeleteBatchAttempted
        /\ bulk_deletes = <<>>
        /\ removed_records = <<>>

\* the insert/replace batch failed in a pass that has an old unseen record
FailureWitness == pc = "raised" /\ FirstBatchFailed /\ SomeUnseenIsOld

Count(docs, doc) == Cardinality({ i \in 1..Len(docs) : docs[i] = doc })

\* the former records that are unseen and not stale
UnseenKept == SelectSeq(former_records, LAMBDA old : Unseen(old) /\ ~IsStale(old))

\* C8 (soft delete, as claimed): after a pass that returned, the collection
\* still holds every former document whose record is unseen and not stale,
\* as it was fetched.
UnseenUntouched ==
    pc = "returned" =>
        \A i \in 1..Len(UnseenKept) :
            Count(store, ToDict(UnseenKept[i])) >= Count(UnseenKept, UnseenKept[i])

\* C9 (batch emptiness): no bulk_write is called with an empty list; the
\* insert/replace batch is written exactly when an insert or replace is
\* queued, the delete batch exactly when a delete is queued; a pass with no
\* fresh record and nothing to remove calls find() only and leaves the
\* collection as it was.
NoEmptyBatch ==
    /\ \A i \in 1..Len(calls) : calls[i].op = "bulk_write" => calls[i].requests # <<>>
    /\ pc \in {"persisted", "collected", "returned"} =>
            (FirstBatchAttempted <=> bulk_inserts_and_replaces # <<>>)
    /\ pc = "returned" =>
            /\ DeleteBatchAttempted <=> bulk_deletes # <<>>
            /\ (fresh_records = <<>> /\ removed_records = <<>>) =>
                    calls = <<FindCall(FALSE)>> /\ store = former_records

\* a pass over a collection that is not empty, with nothing to write
NoEmptyBatchWitness ==
    /\ pc = "returned"
    /\ fresh_records = <<>>
    /\ former_records # <<>>
    /\ removed_records = <<>>
    /\ calls = <<FindCall(FALSE)>>

\* C10 (malformed record fails fast, as claimed): a pass that returns has met
\* no record whose data lacks one of its identifying fields, neither among the
\* fresh records nor among the former ones.
MalformedFailsFast ==
    pc = "returned" =>
        /\ \A i \in 1..Len(fresh_records) : HasIdentifiers(fresh_records[i])
        /\ \A i \in 1..Len(former_records) : HasIdentifiers(former_records[i])

FetchFailed == calls # <<>> /\ calls[1].op = "find" /\ calls[1].raised

\* C11 (fetch failure aborts before mutation): a step that makes find() raise,
\* or that is taken in a pass whose find() raised, leaves the collection as it
\* was; the pass has ended with the error of find(), and find() is the only
\* call it made: no bulk_write of any kind.
FetchFailureAborts ==
    [][ FetchFailed' =>
            /\ store' = store
            /\ pc' = "raised"
            /\ error' = "find"
            /\ calls' = <<FindCall(TRUE)>> ]_vars

\* find() raised in the second pass, after a first pass that wrote its records
FetchFailureWitness ==
    /\ FetchFailed
    /\ pc = "raised"
    /\ previous.returned
    /\ previous.reported
    /\ store # <<>>

WriteFailed(i) == calls[i].op = "bulk_write" /\ calls[i].raised

\* C12 (write failure is surfaced without retry or rollback): a bulk_write
\* that raised is the last call of its pass, which has ended with that error:
\* the batch is not submitted a second time and no call follows it that could
\* undo what the batch had applied; it carried the queued operations, all of
\* them, once.
WriteFailureSurfaced ==
    \A i \in 1..Len(calls) :
        WriteFailed(i) =>
            /\ pc = "raised"
            /\ error = "bulk_write"
            /\ i = Len(calls)
            /\ \A j \in 1..Len(calls) : j # i => calls[j].requests # calls[i].requests
            /\ calls[i].requests \in {bulk_inserts_and_replaces, bulk_deletes}

\* the delete batch raised after a part of it was applied, the insert/replace
\* batch before it having been written
DeleteFailureWitness ==
    /\ Len(calls) = 3
    /\ WriteFailed(3)
    /\ Len(store) < Len(former_records) + Len(added_records)
    /\ removed_records # <<>>

KindsOf(requests) == { requests[i].kind : i \in 1..Len(requests) }

IsFirstBatch(call) ==
    /\ call.op = "bulk_write"
    /\ call.requests = bulk_inserts_and_replaces
    /\ call.requests # <<>>
    /\ KindsOf(call.requests) \subseteq {"insert", "replace"}
    /\ Len(call.requests) = Len(fresh_records)

IsSecondBatch(call) ==
    /\ call.op = "bulk_write"
    /\ call.requests = bulk_deletes
    /\ call.requests # <<>>
    /\ KindsOf(call.requests) = {"delete"}

\* the former records of the initial fetch that no fresh record matches and
\* that are older than the cutoff of the pass
OldUnseenAtFetch ==
    SelectSeq(UnseenOf(former_records, fresh_records),
              LAMBDA old : oldest_permitted_timestamp > old.last_updated)

\* C13 (pipeline ordering): the first call of a pass is its only find(); the
\* calls after it are at most one insert/replace batch, holding one insert or
\* replace per fresh record, and then at most one delete batch, holding
\* deletes only; the records removed are those of the partition of the
\* initial fetch, whatever the first batch did to the collection.
PipelineOrdered ==
    /\ pc # "idle" =>
        /\ calls # <<>>
        /\ calls[1].op = "find"
        /\ \A i \in 2..Len(calls) : calls[i].op = "bulk_write"
        /\ Len(calls) <= 3
        /\ Len(calls) = 3 => IsFirstBatch(calls[2]) /\ IsSecondBatch(calls[3])
        /\ Len(calls) = 2 => IsFirstBatch(calls[2]) \/ IsSecondBatch(calls[2])
        /\ (Len(calls) >= 2 /\ IsSecondBatch(calls[Len(calls)])) => Collected \/ pc = "raised"
    /\ Collected =>
        /\ removed_records = OldUnseenAtFetch
        /\ Len(bulk_deletes) = Len(removed_records)

\* the first batch was written and changed the collection so that a second
\* read would give other records to remove than the initial fetch does
PipelineWitness ==
    /\ pc = "collected"
    /\ Len(calls) = 2
    /\ IsFirstBatch(calls[2])
    /\ removed_records # <<>>
    /\ removed_records #
         SelectSeq(UnseenOf(store, fresh_records),
                   LAMBDA old : oldest_permitted_timestamp > old.last_updated)

IsFresh(r) == \E i \in 1..Len(fresh_records) : fresh_records[i] = r

\* C15 (ChangedRecord non-emptiness): every entry of changed has a non-empty
\* added, changed or removed map, and its record is a fresh record of the
\* pass, with the last_updated of the pass; a fresh record whose data equals
\* the data of its first former record has no entry in changed.
ChangedIsNotEmpty ==
    Classified =>
        /\ \A i \in 1..Len(changed_records) :
            /\ \/ DOMAIN changed_records[i].added # {}
               \/ DOMAIN changed_records[i].changed # {}
               \/ DOMAIN changed_records[i].removed # {}
            /\ IsFresh(changed_records[i].record)
            /\ changed_records[i].record.last_updated = called_at
        /\ \A i \in 1..Len(fresh_records) :
            (HasFormer(fresh_records[i]) /\ FirstFormer(fresh_records[i]).data = fresh_records[i].data)
                => \A j \in 1..Len(changed_records) :
                        changed_records[j].record # fresh_records[i]

\* one fresh record is reported changed, another is refreshed with equal
\* data and an older last_updated, and is not reported
ChangedWitness ==
    /\ pc = "classified"
    /\ changed_records # <<>>
    /\ \E i \in 1..Len(fresh_records) :
        /\ HasFormer(fresh_records[i])
        /\ FirstFormer(fresh_records[i]).data = fresh_records[i].data
        /\ FirstFormer(fresh_records[i]).last_updated < fresh_records[i].last_updated

\* the positions of the former records that are identity-equal to f
FormersOf(f) == { i \in 1..Len(former_records) : Identical(former_records[i], f) }

EntriesOf(f) == { j \in 1..Len(changed_records) : changed_records[j].record = f }

\* C20 (first-match tie-break): for a fresh record with several identity-equal
\* former records, exactly one replace is queued, at its position; changed
\* has at most one entry for it, which is the field diff against the first of
\* those former records in fetch order, and has none when the data of that
\* first one equals its own; none of those former records is reported removed.
FirstMatchDecides ==
    /\ Classified =>
        \A i \in 1..Len(fresh_records) :
            LET f == fresh_records[i]
                first == former_records[CHOOSE k \in FormersOf(f) : \A m \in FormersOf(f) : k <= m]
            IN  Cardinality(FormersOf(f)) >= 2 =>
                    /\ IsReplaceOf(bulk_inserts_and_replaces[i], f)
                    /\ Cardinality(EntriesOf(f)) <= 1
                    /\ EntriesOf(f) = {} <=> first.data = f.data
                    /\ \A j \in EntriesOf(f) :
                        changed_records[j] = ChangedRecord(f, FieldDiff(first.data, f.data))
    /\ Collected =>
        \A i \in 1..Len(fresh_records) :
            \A k \in FormersOf(fresh_records[i]) :
                \A j \in 1..Len(removed_records) : removed_records[j] # former_records[k]

\* a fresh record with two former records of its identity: its data differs
\* from the first and equals the second, which is older than the cutoff
FirstMatchWitness ==
    /\ pc = "collected"
    /\ \E i \in 1..Len(fresh_records) :
        /\ Len(former_records) = 2
        /\ FormersOf(fresh_records[i]) = {1, 2}
        /\ former_records[1].data # fresh_records[i].data
        /\ former_records[2].data = fresh_records[i].data
        /\ former_records[2].last_updated < oldest_permitted_timestamp
        /\ EntriesOf(fresh_records[i]) # {}

\* no record of the list xs is identity-equal to a record of the list ys
DisjointByIdentity(xs, ys) ==
    \A i \in 1..Len(xs), j \in 1..Len(ys) : ~Identical(xs[i], ys[j])

\* C19 (a record observed in a pass is never deleted by that pass, as
\* claimed): no record in removed is identity-equal to a fresh record; added,
\* the records of changed, and removed are pairwise disjoint by identity;
\* every delete queued is built from an unseen former record and its filter
\* matches unseen former records only, no refreshed one and no fresh one, so
\* that the row of every fresh record is in the collection when the pass
\* returns.
ObservedNeverDeleted ==
    /\ Classified => DisjointByIdentity(added_records, RecordsOf(changed_records))
    /\ Collected =>
        /\ DisjointByIdentity(removed_records, fresh_records)
        /\ DisjointByIdentity(removed_records, added_records)
        /\ DisjointByIdentity(removed_records, RecordsOf(changed_records))
        /\ \A i \in 1..Len(bulk_deletes) :
            /\ bulk_deletes[i].kind = "delete"
            /\ \E k \in 1..Len(unseen_old_records) :
                bulk_deletes[i].filter = IdentifiersDict(unseen_old_records[k])
            /\ \A k \in 1..Len(former_records) :
                Matches(bulk_deletes[i].filter, ToDict(former_records[k]))
                    => Unseen(former_records[k])
            /\ \A k \in 1..Len(fresh_records) :
                ~Matches(bulk_deletes[i].filter, ToDict(fresh_records[k]))
    /\ (pc = "returned" /\ NoTwoIdentical(fresh_records)) =>
        \A k \in 1..Len(fresh_records) : Count(store, ToDict(fresh_records[k])) >= 1

\* the rows the collection is expected to hold after the pass: one per fresh
\* record, and those of the unseen former records that are not stale
ExpectedRows ==
    [i \in 1..Len(fresh_records) |-> ToDict(fresh_records[i])]
        \o [i \in 1..Len(UnseenKept) |-> ToDict(UnseenKept[i])]

\* C16 (store convergence after a successful pass, as claimed): when the
\* collection held at most one row per identity, the fresh list holds no two
\* identity-equal records and all records have one non-empty set of
\* identifying fields, then after a pass that returned the collection holds
\* exactly one row per fresh record, with its data and last_updated, and the
\* unchanged rows of the unseen records that are not stale, nothing else.
StoreConverges ==
    (pc = "returned" /\ Uniform(former_records, fresh_records)) =>
        /\ Len(store) = Len(ExpectedRows)
        /\ \A i \in 1..Len(ExpectedRows) :
            Count(store, ExpectedRows[i]) = Count(ExpectedRows, ExpectedRows[i])

\* C17 (identity uniqueness of the store under serialized passes): in a pass
\* that found at most one row per identity and was handed no two
\* identity-equal records, all records well-formed with one non-empty set of
\* identifying fields, the collection holds no two rows of one identity after
\* any of its writes, and its rows stay well-formed with that set of
\* identifying fields: the next pass finds at most one row per identity again.
StoreIdentitiesUnique ==
    (Classified /\ Uniform(former_records, fresh_records)) =>
        /\ NoTwoIdentical(store)
        /\ Uniform(store, fresh_records)

\* the second of two such passes has returned, both have written, and the
\* collection holds two rows
UniqueWitness ==
    /\ pc = "returned"
    /\ previous.returned
    /\ previous.uniform
    /\ previous.reported
    /\ Uniform(former_records, fresh_records)
    /\ Len(calls) >= 2
    /\ Len(store) = 2

IsRemoved(r) == \E i \in 1..Len(removed_records) : removed_records[i] = r

\* C18 (eventual eviction, exactly once, as claimed): a pass reports a former
\* record that no fresh record matches in removed exactly when the pass runs
\* after its last_updated plus the retention period, not before; when the
\* pass returns, the row of every record it reports removed is deleted, so
\* that no later pass finds and reports it again.
EvictedExactlyOnce ==
    /\ Collected =>
        \A i \in 1..Len(former_records) :
            Unseen(former_records[i]) =>
                ( IsRemoved(former_records[i])
                    <=> former_records[i].last_updated + RetentionPeriod < called_at )
    /\ pc = "returned" =>
        \A i \in 1..Len(removed_records) : Count(store, ToDict(removed_records[i])) = 0

\* C14 (two calls that both fetch before either writes leave one identity in
\* conflict): when both calls have returned, a record that both reported as
\* added has two rows in the collection, and a former record that the one call
\* matched with a fresh record and the other call removed has no row at all
RowsOf(r) == { k \in 1..Len(store) : Identical(store[k], r) }

BothAdded(f) ==
    /\ \E i \in 1..Len(added_records) : added_records[i] = f
    /\ \E j \in 1..Len(other.added_records) : other.added_records[j] = f

RefreshedHereRemovedThere(r) ==
    /\ \E i \in 1..Len(refreshed_old_records) : refreshed_old_records[i] = r
    /\ \E j \in 1..Len(other.removed_records) : other.removed_records[j] = r

BothReturned ==
    /\ pc = "returned"
    /\ other.pc = "returned"
    /\ Uniform(former_records, fresh_records)

ConcurrentPassesConflict ==
    BothReturned =>
        /\ \A i \in 1..Len(added_records) :
            BothAdded(added_records[i]) => Cardinality(RowsOf(added_records[i])) = 2
        /\ \A i \in 1..Len(refreshed_old_records) :
            RefreshedHereRemovedThere(refreshed_old_records[i])
                => RowsOf(refreshed_old_records[i]) = {}

\* both conflicts in one final state
ConflictWitness ==
    /\ BothReturned
    /\ \E i \in 1..Len(added_records) :
        /\ BothAdded(added_records[i])
        /\ Cardinality(RowsOf(added_records[i])) = 2
    /\ \E i \in 1..Len(refreshed_old_records) :
        /\ RefreshedHereRemovedThere(refreshed_old_records[i])
        /\ RowsOf(refreshed_old_records[i]) = {}
====
